---- MODULE Spec2Model ----
(***************************************************************************)
(* Model of agent-demo/scripts/validate_environment.py: one run of main(), *)
(* which calls check_python_version, check_packages and check_gcloud and   *)
(* turns their results into an exit code.  The interpreter version, the    *)
(* package-metadata registry and the two gcloud child processes are the    *)
(* environment; their answers are drawn from bounded sets.                 *)
(***************************************************************************)
EXTENDS Integers, Sequences, FiniteSets

\* ---------------------------------------------------------------- bounds
MaxLen == 3          \* longest child-process output built from Alphabet
MaxMajor == 4        \* largest interpreter major version
MaxMinor == 11       \* largest interpreter minor version
MaxMicro == 1        \* largest interpreter micro version
MaxReturnCode == 1   \* largest child-process exit status

\* ------------------------------------------------------------ environment
Whitespace == {" ", "\n", "\t"}
Alphabet == {" ", "\n", "p"}
Unset == <<"(", "u", "n", "s", "e", "t", ")">>

RECURSIVE SeqsUpTo(_, _)
SeqsUpTo(S, n) ==
    IF n = 0 THEN {<<>>}
    ELSE LET shorter == SeqsUpTo(S, n - 1)
         IN shorter \cup {Append(s, c) : s \in shorter, c \in S}

Pads == {<<>>, <<" ">>, <<"\n">>, <<"p">>}
Stdouts == SeqsUpTo(Alphabet, MaxLen) \cup {pre \o Unset \o post : pre \in Pads, post \in Pads}

Versions ==
    {<<major, minor, micro, "final", 0>> :
        major \in 2..MaxMajor, minor \in {0} \cup (9..MaxMinor), micro \in 0..MaxMicro}

ReturnCodes == 0..MaxReturnCode
NotFound == "PackageNotFoundError"
VersionResults == {"1.2.3", NotFound}

Raised(e) == [exc |-> e, returncode |-> 0, stdout |-> <<>>]
Completed(rc, s) == [exc |-> "none", returncode |-> rc, stdout |-> s]
\* `gcloud version`: its captured output is never read by the program
VersionOutcomes ==
    {Raised("FileNotFoundError"), Raised("TimeoutExpired")}
        \cup {Completed(rc, <<>>) : rc \in ReturnCodes}
ProjectOutcomes ==
    {Raised("FileNotFoundError"), Raised("TimeoutExpired")}
        \cup {Completed(rc, s) : rc \in ReturnCodes, s \in Stdouts}

\* ------------------------------------------------------ program constants
MinVersion == <<3, 10>>
required ==
    << <<"google-genai", "google.genai">>,
       <<"google-adk", "google.adk">>,
       <<"google-cloud-aiplatform", "google.cloud.aiplatform">>,
       <<"a2a-sdk", "a2a">> >>
Order == <<"check_python_version", "check_packages", "check_gcloud">>

VARIABLES pc, version_info, started, checks, out, all_installed, idx, looked,
          invocations, exc, exit_code

vars == <<pc, version_info, started, checks, out, all_installed, idx, looked,
          invocations, exc, exit_code>>

\* ------------------------------------------------------------ pure helpers
Line(l, a) == [line |-> l, arg |-> a]
Emit(lines) == out' = out \o lines

\* Python tuple ordering: first differing element decides, else the shorter
\* tuple is the smaller one.
RECURSIVE TupleLt_LongerIsLess(_, _)
TupleLt_LongerIsLess(a, b) ==
    IF a = <<>> THEN FALSE
    ELSE IF b = <<>> THEN TRUE
    ELSE IF a[1] # b[1] THEN a[1] < b[1]
    ELSE TupleLt_LongerIsLess(Tail(a), Tail(b))

RECURSIVE TupleLt(_, _)
TupleLt(a, b) ==
    IF a = <<>> THEN b # <<>>
    ELSE IF b = <<>> THEN FALSE
    ELSE IF a[1] # b[1] THEN a[1] < b[1]
    ELSE TupleLt(Tail(a), Tail(b))

RECURSIVE LStrip(_)
LStrip(s) == IF s # <<>> /\ s[1] \in Whitespace THEN LStrip(Tail(s)) ELSE s

RECURSIVE RStrip(_)
RStrip(s) ==
    IF s # <<>> /\ s[Len(s)] \in Whitespace THEN RStrip(SubSeq(s, 1, Len(s) - 1)) ELSE s

Strip_RightOnly(s) == RStrip(s)

Strip(s) == LStrip(RStrip(s))

ProjectConfigured_ZeroExitOnly(result) ==
    LET project == Strip(result.stdout)
    IN result.returncode = 0 /\ project # <<>> /\ project # Unset

ProjectConfigured(result) ==
    LET project == Strip(result.stdout)
    IN project # <<>> /\ project # Unset

VersionFailed_Never(result) == FALSE

VersionFailed(result) == result.returncode # 0

LookupName(package_name, import_name) ==
    IF import_name # "" THEN import_name ELSE package_name

NextIndex_Break(i, found) == IF found THEN i + 1 ELSE Len(required) + 1

NextIndex(i, found) == i + 1

RECURSIVE All_Any(_)
All_Any(bs) == IF bs = <<>> THEN FALSE ELSE bs[1] \/ All_Any(Tail(bs))

RECURSIVE All(_)
All(bs) == IF bs = <<>> THEN TRUE ELSE bs[1] /\ All(Tail(bs))

MainNext_ShortCircuit(name, result) ==
    IF ~result THEN "summary"
    ELSE IF name = "check_python_version" THEN "check_packages"
    ELSE IF name = "check_packages" THEN "check_gcloud"
    ELSE "summary"

MainNext(name, result) ==
    IF name = "check_python_version" THEN "check_packages"
    ELSE IF name = "check_packages" THEN "check_gcloud"
    ELSE "summary"

\* ------------------------------------------------------------------- Init
Init ==
    /\ pc = "main"
    /\ version_info \in Versions
    /\ started = <<>>
    /\ checks = <<>>
    /\ out = <<>>
    /\ all_installed = TRUE
    /\ idx = 1
    /\ looked = <<>>
    /\ invocations = <<>>
    /\ exc = "none"
    /\ exit_code = -1

\* ---------------------------------------------------------------- actions
MainBanner ==
    /\ pc = "main"
    /\ Emit(<<Line("rule", <<>>), Line("title", <<>>), Line("rule", <<>>)>>)
    /\ pc' = "check_python_version"
    /\ UNCHANGED <<version_info, started, checks, all_installed, idx, looked,
                   invocations, exc, exit_code>>

CheckPythonVersion ==
    /\ pc = "check_python_version"
    /\ started' = Append(started, "check_python_version")
    /\ IF TupleLt(version_info, MinVersion)
       THEN /\ Emit(<<Line("checking_python", <<>>),
                       Line("python_detected", <<version_info[1], version_info[2]>>),
                       Line("python_required", <<>>)>>)
            /\ checks' = Append(checks, FALSE)
            /\ pc' = MainNext("check_python_version", FALSE)
       ELSE /\ Emit(<<Line("checking_python", <<>>),
                       Line("python_ok",
                            <<version_info[1], version_info[2], version_info[3]>>)>>)
            /\ checks' = Append(checks, TRUE)
            /\ pc' = MainNext("check_python_version", TRUE)
    /\ UNCHANGED <<version_info, all_installed, idx, looked, invocations, exc,
                   exit_code>>

CheckPackagesBegin ==
    /\ pc = "check_packages"
    /\ started' = Append(started, "check_packages")
    /\ Emit(<<Line("checking_packages", <<>>)>>)
    /\ all_installed' = TRUE
    /\ idx' = 1
    /\ pc' = "check_package"
    /\ UNCHANGED <<version_info, checks, looked, invocations, exc, exit_code>>

CheckPackage ==
    /\ pc = "check_package"
    /\ idx <= Len(required)
    /\ \E ver \in VersionResults :
         LET package == required[idx][1]
             name == LookupName(required[idx][1], required[idx][2])
         IN /\ looked' = Append(looked, [name |-> name, ver |-> ver])
            /\ IF ver # NotFound
               THEN /\ Emit(<<Line("package_ok", <<package, ver>>)>>)
                    /\ all_installed' = all_installed
               ELSE /\ Emit(<<Line("package_missing", <<package>>)>>)
                    /\ all_installed' = FALSE
            /\ idx' = NextIndex(idx, ver # NotFound)
    /\ UNCHANGED <<pc, version_info, started, checks, invocations, exc, exit_code>>

CheckPackagesEnd ==
    /\ pc = "check_package"
    /\ idx > Len(required)
    /\ IF ~all_installed
       THEN Emit(<<Line("install_missing", <<>>), Line("pip_install", <<>>)>>)
       ELSE UNCHANGED out
    /\ checks' = Append(checks, all_installed)
    /\ pc' = MainNext("check_packages", all_installed)
    /\ UNCHANGED <<version_info, started, all_installed, idx, looked, invocations,
                   exc, exit_code>>

GcloudVersion ==
    /\ pc = "check_gcloud"
    /\ started' = Append(started, "check_gcloud")
    /\ \E result \in VersionOutcomes :
         /\ invocations' =
                Append(invocations, [args |-> <<"gcloud", "version">>, result |-> result])
         /\ IF result.exc # "none"
            THEN /\ Emit(<<Line("checking_gcloud", <<>>),
                            Line("gcloud_not_found", <<>>),
                            Line("install_hint", <<>>)>>)
                 /\ checks' = Append(checks, FALSE)
                 /\ pc' = MainNext("check_gcloud", FALSE)
            ELSE IF VersionFailed(result)
            THEN /\ Emit(<<Line("checking_gcloud", <<>>),
                            Line("gcloud_not_found", <<>>)>>)
                 /\ checks' = Append(checks, FALSE)
                 /\ pc' = MainNext("check_gcloud", FALSE)
            ELSE /\ Emit(<<Line("checking_gcloud", <<>>),
                            Line("gcloud_installed", <<>>)>>)
                 /\ checks' = checks
                 /\ pc' = "gcloud_project"
    /\ UNCHANGED <<version_info, all_installed, idx, looked, exc, exit_code>>

GcloudProject ==
    /\ pc = "gcloud_project"
    /\ \E result \in ProjectOutcomes :
         /\ invocations' =
                Append(invocations,
                       [args |-> <<"gcloud", "config", "get-value", "project">>,
                        result |-> result])
         /\ IF result.exc = "TimeoutExpired"
            THEN /\ Emit(<<Line("could_not_check", <<>>)>>)
                 /\ checks' = Append(checks, FALSE)
                 /\ pc' = MainNext("check_gcloud", FALSE)
                 /\ exc' = exc
            ELSE IF result.exc # "none"
            THEN \* not named by the except clause: leaves check_gcloud and main
                 /\ exc' = result.exc
                 /\ pc' = "raised"
                 /\ UNCHANGED <<out, checks>>
            ELSE IF ProjectConfigured(result)
            THEN /\ Emit(<<Line("project_configured", Strip(result.stdout))>>)
                 /\ checks' = Append(checks, TRUE)
                 /\ pc' = MainNext("check_gcloud", TRUE)
                 /\ exc' = exc
            ELSE /\ Emit(<<Line("no_project", <<>>), Line("config_hint", <<>>)>>)
                 /\ checks' = Append(checks, FALSE)
                 /\ pc' = MainNext("check_gcloud", FALSE)
                 /\ exc' = exc
    /\ UNCHANGED <<version_info, started, all_installed, idx, looked, exit_code>>

MainSummary ==
    /\ pc = "summary"
    /\ IF All(checks)
       THEN /\ Emit(<<Line("rule", <<>>), Line("all_passed", <<>>),
                       Line("next_step", <<>>)>>)
            /\ exit_code' = 0
       ELSE /\ Emit(<<Line("rule", <<>>), Line("some_failed", <<>>)>>)
            /\ exit_code' = 1
    /\ pc' = "exit"
    /\ UNCHANGED <<version_info, started, checks, all_installed, idx, looked,
                   invocations, exc>>

Next ==
    \/ MainBanner
    \/ CheckPythonVersion
    \/ CheckPackagesBegin
    \/ CheckPackage
    \/ CheckPackagesEnd
    \/ GcloudVersion
    \/ GcloudProject
    \/ MainSummary

Spec == Init /\ [][Next]_vars

\* The interpreter runs the script to its end: every enabled step is taken.
FairSpec == Spec /\ WF_vars(Next)

\* ------------------------------------------------------------- properties
Printed(l) == \E n \in DOMAIN out : out[n].line = l
Count(l) == Cardinality({n \in DOMAIN out : out[n].line = l})
Echoed(t) == \E n \in DOMAIN out : out[n].line = "project_configured" /\ out[n].arg = t

\* t is s without its leading and trailing whitespace, stated by position:
\* t = s[i..j], everything outside i..j is whitespace, and a non-empty t
\* begins and ends with a visible character.
IsTrimOf(t, s, i, j) ==
    /\ t = SubSeq(s, i, j)
    /\ \A k \in 1..(i - 1) : s[k] \in Whitespace
    /\ \A k \in (j + 1)..Len(s) : s[k] \in Whitespace
    /\ (i <= j => s[i] \notin Whitespace /\ s[j] \notin Whitespace)

VersionInvocationFailed ==
    /\ Len(invocations) >= 1
    /\ \/ invocations[1].result.exc # "none"
       \/ invocations[1].result.returncode # 0

ProjectInvocationCompleted ==
    /\ Len(invocations) = 2
    /\ invocations[2].result.exc = "none"

\* C1: once main has returned, the exit code is 0 and the affirmative closing
\* message is printed exactly when all three checks returned pass; otherwise
\* the exit code is 1 and the corrective closing message is printed.
C1_ExitCodeIffAllPass ==
    pc = "exit" =>
        /\ Len(checks) = 3
        /\ (checks = <<TRUE, TRUE, TRUE>>) <=> (exit_code = 0)
        /\ (checks = <<TRUE, TRUE, TRUE>>) =>
               Printed("all_passed") /\ ~Printed("some_failed")
        /\ (checks # <<TRUE, TRUE, TRUE>>) =>
               exit_code = 1 /\ Printed("some_failed") /\ ~Printed("all_passed")

C1_Witness ==
    /\ pc = "exit"
    /\ checks = <<TRUE, FALSE, TRUE>>
    /\ exit_code = 1

\* C2: no exception propagates out of check_gcloud, whatever the outcome of
\* either child-process invocation.
C2_NoExceptionEscapes == pc # "raised" /\ exc = "none"

\* C3: whenever the first invocation fails (binary missing, timeout, non-zero
\* status) the check returns fail and the installation hint has been printed.
C3_FirstFailurePrintsInstallHint ==
    VersionInvocationFailed =>
        /\ Len(checks) = 3
        /\ checks[3] = FALSE
        /\ Printed("install_hint")

\* C4: a second invocation exists only after `gcloud version` completed with
\* status zero; after a failed first invocation the check has returned fail
\* and there is never a second invocation.
C4_SecondOnlyAfterFirstSucceeded ==
    /\ Len(invocations) >= 1 => invocations[1].args = <<"gcloud", "version">>
    /\ Len(invocations) >= 2 =>
           /\ invocations[1].result.exc = "none"
           /\ invocations[1].result.returncode = 0
           /\ invocations[2].args = <<"gcloud", "config", "get-value", "project">>
    /\ VersionInvocationFailed =>
           /\ Len(invocations) = 1
           /\ Len(checks) = 3
           /\ checks[3] = FALSE

C4_Witness ==
    /\ pc = "exit"
    /\ Len(invocations) = 1
    /\ invocations[1].result.exc = "none"
    /\ invocations[1].result.returncode # 0

\* C5: when the second invocation completed, the check passes exactly when
\* the trimmed output is non-empty and is not `(unset)`; on pass the trimmed
\* string is echoed, on fail the configuration hint is printed.
C5_PassIffProjectSet ==
    ProjectInvocationCompleted =>
        LET s == invocations[2].result.stdout
        IN /\ Len(checks) = 3
           /\ \E i \in 1..(Len(s) + 1), j \in 0..Len(s) :
                LET t == SubSeq(s, i, j)
                IN /\ IsTrimOf(t, s, i, j)
                   /\ checks[3] <=> (t # <<>> /\ t # Unset)
                   /\ checks[3] => Echoed(t) /\ ~Printed("config_hint")
                   /\ ~checks[3] =>
                          Printed("config_hint") /\ ~Printed("project_configured")

C5_Witness ==
    /\ ProjectInvocationCompleted
    /\ invocations[2].result.stdout = <<" ", "p", "\n">>
    /\ checks[3] = TRUE
    /\ Echoed(<<"p">>)

\* C6: check_packages passes exactly when every required entry resolved to a
\* version; every entry is looked up, in order, whatever the earlier results;
\* the install command is printed once if some entry is absent, else never.
C6_PackagesAndOfAllEntries ==
    Len(checks) >= 2 =>
        /\ Len(looked) = Len(required)
        /\ \A i \in DOMAIN required : looked[i].name = required[i][2]
        /\ checks[2] <=> (\A i \in DOMAIN looked : looked[i].ver # NotFound)
        /\ LET missing == \E i \in DOMAIN looked : looked[i].ver = NotFound
           IN /\ Count("pip_install") = (IF missing THEN 1 ELSE 0)
              /\ Count("install_missing") = (IF missing THEN 1 ELSE 0)

C6_Witness ==
    /\ Len(checks) >= 2
    /\ checks[2] = FALSE
    /\ Len(looked) = 4
    /\ looked[1].ver = NotFound
    /\ looked[2].ver # NotFound
    /\ looked[3].ver = NotFound
    /\ Count("pip_install") = 1

\* C7: the version check passes exactly for versions at or above 3.10 in the
\* (major, minor) order, whatever the micro version.
C7_VersionThreshold ==
    Len(checks) >= 1 =>
        (checks[1] <=>
            (version_info[1] > 3 \/ (version_info[1] = 3 /\ version_info[2] >= 10)))

C7_Witness ==
    /\ Len(checks) >= 1
    /\ version_info[1] = 3
    /\ version_info[2] = 10
    /\ version_info[3] = 0
    /\ checks[1] = TRUE

\* C8: every run of main eventually reaches its final summary and returns an
\* exit code in {0, 1}.
C8_MainTerminates == <>(pc = "exit" /\ exit_code \in {0, 1})

\* C9: the checks start in the order version, packages, CLI, each once; a
\* failed check does not stop the later ones; the summary is printed only
\* after all three have returned.
C9_FixedOrderNoShortCircuit ==
    /\ Len(started) <= Len(Order)
    /\ \A i \in DOMAIN started : started[i] = Order[i]
    /\ Len(checks) <= Len(started)
    /\ Len(started) <= Len(checks) + 1
    /\ pc \in {"summary", "exit", "raised"} => started = Order
    /\ (Printed("all_passed") \/ Printed("some_failed")) =>
           /\ pc = "exit"
           /\ Len(checks) = 3
           /\ started = Order

C9_Witness ==
    /\ pc = "exit"
    /\ checks = <<FALSE, FALSE, TRUE>>
    /\ started = Order

\* C10: the exit status of the second invocation does not influence the
\* result: with a non-zero status the check still passes exactly when the
\* output shows a visible character and is not `(unset)` padded by whitespace.
C10_ResultIgnoresProjectExitStatus ==
    (ProjectInvocationCompleted /\ invocations[2].result.returncode # 0) =>
        LET s == invocations[2].result.stdout
            visible == {k \in DOMAIN s : s[k] \notin Whitespace}
            paddedUnset ==
                \E k \in DOMAIN s :
                    /\ k + Len(Unset) - 1 <= Len(s)
                    /\ SubSeq(s, k, k + Len(Unset) - 1) = Unset
                    /\ visible = k..(k + Len(Unset) - 1)
        IN checks[3] <=> (visible # {} /\ ~paddedUnset)

C10_Witness ==
    /\ ProjectInvocationCompleted
    /\ invocations[2].result.returncode # 0
    /\ invocations[2].result.stdout = <<"p", "\n">>
    /\ checks[3] = TRUE

====
